---- MODULE Spec2Model ----
(***************************************************************************)
(* Session orchestration of the agent manager (src/src/createAgentManager.ts,*)
(* the revision returning connect / disconnect / chat / rate / speak).      *)
(*                                                                         *)
(* The session object of createAgentManager owns `items` (chat, streaming  *)
(* manager, socket manager, messages).  Every await of the code is a       *)
(* suspension point: each async method is split into one action per        *)
(* segment between awaits, and the collaborators (socket server, media     *)
(* stream, REST API) answer nondeterministically.                          *)
(*                                                                         *)
(* Not modelled: created_at timestamps, analytics, auth and URLs.          *)
(***************************************************************************)
EXTENDS Integers, Sequences, FiniteSets, TLC

(* ------------------------------ bounds --------------------------------- *)

\* The operations that make the state grow are counted together: connect()
\* calls, chat() calls that reach the REST call and progress events.  One
\* behaviour holds at most MaxOps of them, in any mix.
MaxOps == 3
\* newChat REST calls one connect() may have in flight at a time
MaxPending == 2
\* connection states the streams report in a behaviour that records them
MaxReports == 3

(* ------------------------------ values --------------------------------- *)

\* JavaScript's undefined, for an optional string (a chat id, a provider, a result)
Undefined == "undefined"

\* an absent handle: items.streamingManager and items.socketManager are optional
NoHandle == 0

RECURSIVE Rep(_, _)
\* the string s repeated n times
Rep(s, n) ==
    IF n = 0 THEN ""
    ELSE IF n % 2 = 0 THEN LET h == Rep(s, n \div 2) IN h \o h
    ELSE s \o Rep(s, n - 1)

\* a message text of exactly 800 characters
LongText == Rep("x", 800)

\* the texts the host passes to chat()
Texts == {"", "hello", LongText}

\* the append_chat argument of chat()
AppendFlags == {FALSE}

\* the agents the session may be created for
Agents ==
    { [id |-> "agt1", preview_name |-> "Ann", greetings |-> <<"Hi", "Hey">>,
       presenter |-> [type |-> "clip", driver_id |-> "drv", presenter_id |-> "prs",
                      source_url |-> Undefined, voice |-> "voiceA"],
       knowledge |-> "kb1"],
      [id |-> "agt2", preview_name |-> "Bob", greetings |-> <<>>,
       presenter |-> [type |-> "talk", driver_id |-> Undefined, presenter_id |-> Undefined,
                      source_url |-> "http://img", voice |-> "voiceB"],
       knowledge |-> Undefined] }

\* ChatProgress
ChatProgress == {"partial", "answer", "complete"}

\* the data of a progress event: with a content field, or without one
EventData == {Undefined, "A"}

\* the connection states a streaming manager reports
ConnectionState == {"connected", "fail", "disconnected"}

\* the responses of a successful REST chat call.  result is optional; an absent
\* matches is written <<>> (its only reader, rate, maps undefined to [])
ChatResponses ==
    { [result |-> "world", matches |-> <<[document_id |-> "d1", id |-> "m1"]>>],
      [result |-> Undefined, matches |-> <<>>] }

\* the payloads the host passes to speak() (an absent ssml is written FALSE:
\* getScript reads it as `payload.ssml || false`)
SpeakPayloads ==
    { [type |-> "text", provider |-> "voiceX", input |-> "hi", ssml |-> TRUE, audio_url |-> Undefined],
      [type |-> "text", provider |-> Undefined, input |-> "hi", ssml |-> FALSE, audio_url |-> Undefined],
      [type |-> "audio", provider |-> Undefined, input |-> Undefined, ssml |-> FALSE, audio_url |-> "http://a"],
      [type |-> "video", provider |-> Undefined, input |-> Undefined, ssml |-> FALSE, audio_url |-> Undefined] }

\* connect() calls are numbered in call order; the socket and the stream a
\* call opens carry its number as their handle
ConnectIds == 1 .. MaxOps

(* ------------------------------ state ---------------------------------- *)

VARIABLES
    agentInstance,  \* the agent fetched at construction
    mode,           \* the chat mode of the session
    reported,       \* the connection states the streams have reported, as
                    \* <<connect() call, state>>, in the order of the reports
    forwarded,      \* the connection states callbacks.onConnectionStateChange
                    \* of the host has received, in the order of the calls
    notified,       \* the transcript as the last call of callbacks.onNewMessage got it
    items,          \* [chat, streamingManager, socketManager, messages]
    resets,         \* number of times connect() has replaced the transcript
    conn,           \* per connect() call: its position (pc: "idle", then "socket",
                    \* "stream", "wait" at its awaits, then "resolved", the error it
                    \* rejected with, or "hung"), the number of newChat
                    \* calls in flight (pending) and returned (created); the
                    \* `chat` of its initializeStreamAndChat is the last one returned
    sockets,        \* per socket handle: "none" | "open" | "closed"
    streams,        \* per stream handle: "none" | "open" | "closed"
    chatCalls,      \* the REST chat requests in flight, in the order they were issued
    used,           \* number of chat() calls that reached the REST call, plus
                    \* number of progress events delivered
    answeredId,     \* id of the message the last answer event was applied to
    ret             \* the host's call that ran last: the error it threw, the
                    \* collaborator call it reached before its first await, or
                    \* how the chat() that was resumed last ended

vars == <<agentInstance, mode, reported, forwarded, notified, items, resets, conn, sockets, streams,
          chatCalls, used, answeredId, ret>>

(* ------------------------------ helpers -------------------------------- *)

\* getRandom(): ids are fresh.  The id of the message that is put at position i
\* of the g-th transcript (a transcript only grows until connect() replaces it)
MessageId(g, i) == "id" \o ToString(g) \o "." \o ToString(i)

\* the stream arguments of an agent
getAgentStreamArgs(agent) ==
    IF agent.presenter.type = "clip"
    THEN [videoType |-> "clip", driver_id |-> agent.presenter.driver_id,
          presenter_id |-> agent.presenter.presenter_id]
    ELSE [videoType |-> "talk", source_url |-> agent.presenter.source_url]

\* the contents getInitialMessages may choose for an agent
GreetingContents(agent) ==
    IF Len(agent.greetings) > 0
    THEN {agent.greetings[i] : i \in 1 .. Len(agent.greetings)}
    ELSE {"Hi! I'm " \o agent.preview_name \o ", welcome to agents. How can I help you?"}

\* getInitialMessages(agent) with the random pick c, for the g-th transcript
getInitialMessages(c, g) ==
    << [id |-> MessageId(g, 1), content |-> c, role |-> "assistant", matches |-> <<>>] >>

\* the id of the j-th chat that newChat returns to connect() call a
ChatId(a, j) == "chat" \o ToString(a) \o "." \o ToString(j)

\* the outcome of a call of the host: the error it threw, or what it did;
\* arg is the message id of a rate() call
RetOf(op, arg, out) == [op |-> op, arg |-> arg, out |-> out]

Ret(op, out) == RetOf(op, Undefined, out)

Init ==
    /\ agentInstance \in Agents
    /\ \E c \in GreetingContents(agentInstance) :
          items = [chat |-> Undefined, streamingManager |-> NoHandle,
                   socketManager |-> NoHandle, messages |-> getInitialMessages(c, 0)]
    /\ notified = items.messages
    /\ mode = "functional"
    /\ resets = 0
    /\ conn = [a \in ConnectIds |-> [pc |-> "idle", pending |-> 0, created |-> 0]]
    /\ sockets = [a \in ConnectIds |-> "none"]
    /\ streams = [a \in ConnectIds |-> "none"]
    /\ chatCalls = <<>>
    /\ used = 0
    /\ answeredId = Undefined
    /\ reported = <<>>
    /\ forwarded = <<>>
    /\ ret = Ret("createAgentManager", "ok")

\* the counted operations made so far
Ops ==
    Cardinality({a \in ConnectIds : conn[a].pc # "idle"}) + used

\* whether one more counted operation fits the behaviour
InBudget == Ops < MaxOps

(* ------------------------------ connect -------------------------------- *)

\* connect() calls are made in order, and the host awaits one before it makes
\* the next (a call that hangs is given up)
CanCall(a) ==
    /\ InBudget
    /\ conn[a].pc = "idle"
    /\ \A b \in ConnectIds : b < a => conn[b].pc \notin {"idle", "socket", "stream", "wait"}

\* connect(), up to its first await: createSocketManager is pending
connect(a) ==
    /\ CanCall(a)
    /\ conn' = [conn EXCEPT ![a].pc = "socket"]
    /\ ret' = Ret("connect", "pending")
    /\ UNCHANGED <<agentInstance, reported, forwarded, mode, notified, items, resets, sockets, streams,
                   chatCalls, used, answeredId>>

\* createSocketManager resolves: the socket is open and its progress handler is
\* installed; connect goes on to initializeStreamAndChat, whose executor awaits
\* createStreamingManager
createSocketManagerOk(a) ==
    /\ conn[a].pc = "socket"
    /\ sockets' = [sockets EXCEPT ![a] = "open"]
    /\ conn' = [conn EXCEPT ![a].pc = "stream"]
    /\ UNCHANGED <<agentInstance, reported, forwarded, mode, notified, items, resets, streams, chatCalls,
                   used, answeredId, ret>>

\* createSocketManager rejects: connect() rejects, nothing was assigned
createSocketManagerFail(a) ==
    /\ conn[a].pc = "socket"
    /\ conn' = [conn EXCEPT ![a].pc = "Cannot open socket"]
    /\ UNCHANGED <<agentInstance, reported, forwarded, mode, notified, items, resets, sockets, streams,
                   chatCalls, used, answeredId, ret>>

\* createStreamingManager(getAgentStreamArgs(agent), ...) resolves: the stream
\* exists and reports its connection states to onConnectionStateChange
createStreamingManagerOk(a) ==
    /\ conn[a].pc = "stream"
    /\ getAgentStreamArgs(agentInstance).videoType \in {"clip", "talk"}
    /\ streams' = [streams EXCEPT ![a] = "open"]
    /\ conn' = [conn EXCEPT ![a].pc = "wait"]
    /\ UNCHANGED <<agentInstance, reported, forwarded, mode, notified, items, resets, sockets, chatCalls,
                   used, answeredId, ret>>

\* createStreamingManager rejects inside the async executor of the promise:
\* neither resolve nor reject is called, the promise of initializeStreamAndChat
\* and with it connect() stay pending
createStreamingManagerFail(a) ==
    /\ conn[a].pc = "stream"
    /\ conn' = [conn EXCEPT ![a].pc = "hung"]
    /\ UNCHANGED <<agentInstance, reported, forwarded, mode, notified, items, resets, sockets, streams,
                   chatCalls, used, answeredId, ret>>

\* a connect() that assigns the handles and keeps the transcript
InstallSession_keepTranscript(a, chat, c) ==
    [chat |-> chat, streamingManager |-> a, socketManager |-> a,
     messages |-> items.messages]

\* a connect() that assigns the chat and the stream and leaves the socket
InstallSession_noSocket(a, chat, c) ==
    [chat |-> chat, streamingManager |-> a, socketManager |-> items.socketManager,
     messages |-> getInitialMessages(c, resets + 1)]

\* what connect() assigns once initializeStreamAndChat has resolved with
\* {chat, streamingManager}: the three handles and a fresh greeting
InstallSession(a, chat, c) ==
    [chat |-> chat, streamingManager |-> a, socketManager |-> a,
     messages |-> getInitialMessages(c, resets + 1)]

\* resolve({chat, streamingManager}) followed by the rest of connect(); a
\* promise that is already settled ignores it
Resolve(a, chat) ==
    IF conn[a].pc = "wait"
    THEN /\ \E c \in GreetingContents(agentInstance) : items' = InstallSession(a, chat, c)
         /\ resets' = resets + 1
         /\ notified' = items'.messages
    ELSE UNCHANGED <<items, resets, notified>>

\* the `chat` variable of initializeStreamAndChat for connect() call a
LocalChat(a) == IF conn[a].created = 0 THEN Undefined ELSE ChatId(a, conn[a].created)

\* whether the handler of a "connected" state has to create the chat
NeedsNewChat(a) == LocalChat(a) = Undefined

\* The promise of initializeStreamAndChat settles once.  From then on resolve
\* and reject are ignored, and `chat` is read by this handler alone: what the
\* handler and the newChat calls still in flight do changes nothing of the
\* session.  The calls in flight are therefore dropped when the promise
\* settles, and the handler of a settled promise is a step that changes nothing.
SettleWith(a, how, created) == [pc |-> how, pending |-> 0, created |-> created]

\* onConnectionStateChange(state) of the stream of connect() call a
onConnectionStateChange(a, state) ==
    /\ streams[a] = "open"
    /\ IF conn[a].pc # "wait"
       THEN UNCHANGED <<items, resets, notified, conn>>
       ELSE IF state = "connected"
       THEN IF NeedsNewChat(a)
            THEN \* chat = await agentsApi.newChat(agent.id)
                 /\ conn[a].pending < MaxPending
                 /\ conn' = [conn EXCEPT ![a].pending = @ + 1]
                 /\ UNCHANGED <<items, resets, notified>>
            ELSE /\ Resolve(a, LocalChat(a))
                 /\ conn' = [conn EXCEPT ![a] = SettleWith(a, "resolved", conn[a].created)]
       ELSE IF state = "fail"
            THEN /\ conn' = [conn EXCEPT ![a] = SettleWith(a, "Cannot create connection", conn[a].created)]
                 /\ UNCHANGED <<items, resets, notified>>
            ELSE UNCHANGED <<items, resets, notified, conn>>
    /\ UNCHANGED <<agentInstance, reported, forwarded, mode, sockets, streams, chatCalls, used, answeredId, ret>>

\* a newChat call returns a chat: it is assigned to `chat` and resolve is called
newChatOk(a) ==
    /\ conn[a].pc = "wait"
    /\ conn[a].pending > 0
    /\ Resolve(a, ChatId(a, conn[a].created + 1))
    /\ conn' = [conn EXCEPT ![a] = SettleWith(a, "resolved", conn[a].created + 1)]
    /\ UNCHANGED <<agentInstance, reported, forwarded, mode, sockets, streams, chatCalls, used, answeredId, ret>>

\* a newChat call throws: reject('Cannot create new chat')
newChatFail(a) ==
    /\ conn[a].pc = "wait"
    /\ conn[a].pending > 0
    /\ conn' = [conn EXCEPT ![a] = SettleWith(a, "Cannot create new chat", conn[a].created)]
    /\ UNCHANGED <<agentInstance, reported, forwarded, mode, notified, items, resets, sockets, streams,
                   chatCalls, used, answeredId, ret>>

(* ------------------ the connection states the host sees ---------------- *)

\* The handler above keeps what the session needs: once the promise of
\* initializeStreamAndChat has settled, no report and no newChat call changes
\* the session.  The host's callbacks.onConnectionStateChange is called at the
\* end of every run of the handler, settled or not, so the three steps below
\* follow the handler run by run: every report is recorded, every newChat call
\* stays in flight until it returns or throws, and the state is forwarded when
\* the run that got it ends.

\* the stream of connect() call a reports state: the handler runs up to its
\* await of agentsApi.newChat, or to its end
streamReports(a, state) ==
    /\ streams[a] = "open"
    /\ Len(reported) < MaxReports
    /\ reported' = Append(reported, <<a, state>>)
    /\ IF state = "connected" /\ NeedsNewChat(a)
       THEN \* chat = await agentsApi.newChat(agent.id): the run is suspended
            /\ conn' = [conn EXCEPT ![a].pending = @ + 1]
            /\ UNCHANGED <<forwarded, items, resets, notified>>
       ELSE /\ forwarded' = Append(forwarded, <<a, state>>)
            /\ IF state = "connected"
               THEN /\ Resolve(a, LocalChat(a))
                    /\ conn' = IF conn[a].pc = "wait"
                               THEN [conn EXCEPT ![a].pc = "resolved"] ELSE conn
               ELSE /\ conn' = IF state = "fail" /\ conn[a].pc = "wait"
                               THEN [conn EXCEPT ![a].pc = "Cannot create connection"]
                               ELSE conn
                    /\ UNCHANGED <<items, resets, notified>>
    /\ UNCHANGED <<agentInstance, mode, sockets, streams, chatCalls, used, answeredId, ret>>

\* a newChat call of connect() call a returns: the suspended run assigns
\* `chat`, calls resolve and forwards the "connected" it was called with
newChatReturns(a) ==
    /\ conn[a].pending > 0
    /\ Resolve(a, ChatId(a, conn[a].created + 1))
    /\ conn' = [conn EXCEPT ![a] =
                 [pc |-> IF conn[a].pc = "wait" THEN "resolved" ELSE conn[a].pc,
                  pending |-> conn[a].pending - 1,
                  created |-> conn[a].created + 1]]
    /\ forwarded' = Append(forwarded, <<a, "connected">>)
    /\ UNCHANGED <<agentInstance, mode, reported, sockets, streams, chatCalls, used,
                   answeredId, ret>>

\* a newChat call of connect() call a throws: the suspended run calls
\* reject('Cannot create new chat') and forwards its "connected"
newChatThrows(a) ==
    /\ conn[a].pending > 0
    /\ conn' = [conn EXCEPT ![a] =
                 [pc |-> IF conn[a].pc = "wait" THEN "Cannot create new chat" ELSE conn[a].pc,
                  pending |-> conn[a].pending - 1,
                  created |-> conn[a].created]]
    /\ forwarded' = Append(forwarded, <<a, "connected">>)
    /\ UNCHANGED <<agentInstance, mode, reported, notified, items, resets, sockets,
                   streams, chatCalls, used, answeredId, ret>>

(* ----------------------------- disconnect ------------------------------ *)

\* the handles disconnect() invokes disconnect() on
DisconnectTargets ==
    [socket |-> items.socketManager, stream |-> items.streamingManager]

\* what disconnect() leaves in items
AfterDisconnect == items

\* the sockets after items.socketManager?.disconnect()
SocketsAfterDisconnect ==
    [a \in ConnectIds |-> IF a = DisconnectTargets.socket THEN "closed" ELSE sockets[a]]

\* the streams after await items.streamingManager?.disconnect()
StreamsAfterDisconnect ==
    [a \in ConnectIds |-> IF a = DisconnectTargets.stream THEN "closed" ELSE streams[a]]

\* disconnect(): items.socketManager?.disconnect(), then
\* await items.streamingManager?.disconnect()
disconnect ==
    LET t == DisconnectTargets IN
    /\ sockets' = SocketsAfterDisconnect
    /\ streams' = StreamsAfterDisconnect
    /\ items' = AfterDisconnect
    /\ ret' = Ret("disconnect",
                   IF t.socket # NoHandle
                   THEN (IF t.stream # NoHandle THEN "both" ELSE "socket")
                   ELSE (IF t.stream # NoHandle THEN "stream" ELSE "none"))
    /\ UNCHANGED <<agentInstance, reported, forwarded, mode, notified, resets, conn, chatCalls, used, answeredId>>

(* -------------------------------- chat --------------------------------- *)

\* the error chat(userMessage) throws before it touches the transcript
ChatError(userMessage) ==
    IF Len(userMessage) = 0 THEN "Message cannot be empty"
    ELSE IF items.chat = Undefined THEN "Chat is not initialized"
    ELSE IF items.streamingManager = NoHandle THEN "Streaming manager is not initialized"
    ELSE "none"

\* the message chat() pushes for the user
UserMessage(userMessage, g, i) ==
    [id |-> MessageId(g, i), role |-> "user", content |-> userMessage, matches |-> <<>>]

\* an assistant message that takes response.result as it comes
AssistantMessage_rawResult(response, g, i) ==
    [id |-> MessageId(g, i), role |-> "assistant",
     content |-> response.result, matches |-> response.matches]

\* the message chat() pushes for the response of agentsApi.chat
AssistantMessage(response, g, i) ==
    [id |-> MessageId(g, i), role |-> "assistant",
     content |-> IF response.result = Undefined THEN "" ELSE response.result,
     matches |-> response.matches]

\* the transcript after chat() has pushed the user message
PushUser(ms, userMessage, g) == Append(ms, UserMessage(userMessage, g, Len(ms) + 1))

\* the transcript after chat() has pushed the assistant message
PushAssistant(ms, response, g) == Append(ms, AssistantMessage(response, g, Len(ms) + 1))

\* a chat() that takes its user message back when agentsApi.chat rejects
AfterChatFailure_rollback(ms) == SubSeq(ms, 1, Len(ms) - 1)

\* the transcript after agentsApi.chat has rejected: chat() has no catch, the
\* user message it pushed stays
AfterChatFailure(ms) == ms

\* the sequence q without its i-th element
RemoveAt(q, i) == SubSeq(q, 1, i - 1) \o SubSeq(q, i + 1, Len(q))

\* a chat() that sends the ids of the streaming manager of the first connect()
ChatRequest_firstStream(ms, append_chat) ==
    [chatId |-> items.chat, sessionId |-> 1, streamId |-> 1,
     messages |-> ms, append_chat |-> append_chat]

\* the arguments of agentsApi.chat: the chat id, and the session id and the
\* stream id of items.streamingManager with the messages and append_chat; a
\* streaming manager carries the number of its connect() call as both ids
ChatRequest(ms, append_chat) ==
    [chatId |-> items.chat,
     sessionId |-> items.streamingManager, streamId |-> items.streamingManager,
     messages |-> ms, append_chat |-> append_chat]

\* chat(userMessage, append_chat), up to the await of agentsApi.chat
chat(userMessage, append_chat) ==
    LET e == ChatError(userMessage) IN
    IF e # "none"
    THEN /\ ret' = Ret("chat", e)
         /\ UNCHANGED <<agentInstance, reported, forwarded, mode, notified, items, resets, conn, sockets, streams,
                        chatCalls, used, answeredId>>
    ELSE /\ InBudget
         /\ items' = [items EXCEPT !.messages = PushUser(@, userMessage, resets)]
         /\ chatCalls' = Append(chatCalls, ChatRequest(items'.messages, append_chat))
         /\ used' = used + 1
         /\ ret' = Ret("chat", "agentsApi.chat")
         /\ UNCHANGED <<agentInstance, reported, forwarded, mode, notified, resets, conn, sockets, streams, answeredId>>

\* agentsApi.chat of call i resolves: the assistant message is pushed and
\* chat() returns the response
chatOk(i, response) ==
    /\ i \in 1 .. Len(chatCalls)
    /\ items' = [items EXCEPT !.messages = PushAssistant(@, response, resets)]
    /\ notified' = items'.messages
    /\ chatCalls' = RemoveAt(chatCalls, i)
    /\ ret' = Ret("chat", "resolved")
    /\ UNCHANGED <<agentInstance, reported, forwarded, mode, resets, conn, sockets, streams, used, answeredId>>

\* agentsApi.chat of call i rejects: chat() rejects with the same error
chatFail(i) ==
    /\ i \in 1 .. Len(chatCalls)
    /\ chatCalls' = RemoveAt(chatCalls, i)
    /\ items' = [items EXCEPT !.messages = AfterChatFailure(@)]
    /\ ret' = Ret("chat", "rejected")
    /\ UNCHANGED <<agentInstance, reported, forwarded, mode, notified, resets, conn, sockets, streams, used, answeredId>>

(* ------------------------- socket progress handler --------------------- *)

\* a handler that overwrites the content whatever the progress
ApplyProgress_overwrite(ms, progress, content) ==
    IF Len(ms) > 0 /\ ms[Len(ms)].role = "assistant"
    THEN [ms EXCEPT ![Len(ms)].content = content]
    ELSE ms

\* the transcript after the handler has seen (progress, {content})
ApplyProgress(ms, progress, content) ==
    IF Len(ms) > 0 /\ ms[Len(ms)].role = "assistant"
    THEN [ms EXCEPT ![Len(ms)].content = IF progress = "partial" THEN @ \o content ELSE content]
    ELSE ms

\* the callback connect() gave to createSocketManager, called by socket s with
\* (progress, data); data is the content, or Undefined when it has no content
onProgress(s, progress, data) ==
    /\ sockets[s] = "open"
    /\ InBudget
    /\ used' = used + 1
    /\ IF data # Undefined
       THEN /\ items' = [items EXCEPT !.messages = ApplyProgress(@, progress, data)]
            /\ notified' = items'.messages
            /\ answeredId' =
                 IF progress = "answer" /\ items.messages[Len(items.messages)].role = "assistant"
                 THEN items.messages[Len(items.messages)].id
                 ELSE answeredId
       ELSE UNCHANGED <<items, notified, answeredId>>
    /\ UNCHANGED <<agentInstance, reported, forwarded, mode, resets, conn, sockets, streams, chatCalls, ret>>

(* -------------------------------- speak -------------------------------- *)

\* getScript() of speak(payload)
getScript(payload) ==
    IF payload.type = "text"
    THEN [type |-> "text",
          provider |-> IF payload.provider # Undefined THEN payload.provider
                       ELSE agentInstance.presenter.voice,
          input |-> payload.input, ssml |-> payload.ssml]
    ELSE IF payload.type = "audio"
    THEN [type |-> "audio", audio_url |-> payload.audio_url]
    ELSE [type |-> "Invalid payload"]

\* the error speak() throws before getScript() runs
SpeakError ==
    IF items.streamingManager = NoHandle THEN "Streaming manager is not initialized"
    ELSE "none"

\* speak(payload)
speak(payload) ==
    /\ ret' = IF SpeakError # "none" THEN Ret("speak", SpeakError)
              ELSE IF getScript(payload).type = "Invalid payload"
              THEN Ret("speak", "Invalid payload")
              ELSE Ret("speak", "streamingManager.speak")
    /\ UNCHANGED <<agentInstance, reported, forwarded, mode, notified, items, resets, conn, sockets, streams,
                   chatCalls, used, answeredId>>

(* -------------------------------- rate --------------------------------- *)

\* items.messages.find(message => message.id === messageId), as the set of
\* positions holding the first such message
FindMessage(messageId) ==
    {i \in 1 .. Len(items.messages) :
        /\ items.messages[i].id = messageId
        /\ \A j \in 1 .. (i - 1) : items.messages[j].id # messageId}

\* a rate() that looks at the message before it looks at the chat
RateError_messageFirst(messageId) ==
    IF FindMessage(messageId) = {} THEN "Message not found"
    ELSE IF items.chat = Undefined THEN "Chat is not initialized"
    ELSE "none"

\* the error rate() throws
RateError(messageId) ==
    IF items.chat = Undefined THEN "Chat is not initialized"
    ELSE IF FindMessage(messageId) = {} THEN "Message not found"
    ELSE "none"

\* the message ids the host passes to rate(): the id of the last message and
\* an id that was never drawn
RateTargets == {items.messages[Len(items.messages)].id, "id?"}

\* the scores the host passes to rate(); the score goes into the payload of
\* the rating request and nowhere else
Scores == {1}

\* the rating ids the host passes to rate()
RateIds == {Undefined, "rate1"}

\* rate(messageId, score, rateId)
rate(messageId, score, rateId) ==
    /\ ret' =
         IF RateError(messageId) # "none" THEN RetOf("rate", messageId, RateError(messageId))
         ELSE IF rateId # Undefined THEN RetOf("rate", messageId, "ratingsAPI.update")
         ELSE RetOf("rate", messageId, "ratingsAPI.create")
    /\ UNCHANGED <<agentInstance, reported, forwarded, mode, notified, items, resets, conn, sockets, streams,
                   chatCalls, used, answeredId>>

(* ------------------------------ chat mode ------------------------------ *)

\* The revision of the session object that has chat modes is not among the
\* sources.  The mode and changeMode are taken from the description of the
\* session operations: changeMode(mode) is a no-op if mode is the current mode;
\* otherwise, if the new mode is not Functional, disconnect() runs first; then
\* the mode is updated and the host is notified.  disconnect() is the one above.
ChatMode == {"functional", "textOnly", "maintenance"}

changeMode(newMode) ==
    IF newMode = mode
    THEN /\ ret' = Ret("changeMode", "no-op")
         /\ UNCHANGED <<agentInstance, reported, forwarded, mode, notified, items, resets, conn, sockets,
                        streams, chatCalls, used, answeredId>>
    ELSE /\ IF newMode # "functional"
            THEN /\ sockets' = SocketsAfterDisconnect
                 /\ streams' = StreamsAfterDisconnect
                 /\ items' = AfterDisconnect
            ELSE UNCHANGED <<sockets, streams, items>>
         /\ mode' = newMode
         /\ ret' = Ret("changeMode", "onModeChange")
         /\ UNCHANGED <<agentInstance, reported, forwarded, notified, resets, conn, chatCalls, used, answeredId>>

(* ----------------------------- specification --------------------------- *)

Next ==
    \/ \E a \in ConnectIds : connect(a)
    \/ \E a \in ConnectIds : createSocketManagerOk(a)
    \/ \E a \in ConnectIds : createSocketManagerFail(a)
    \/ \E a \in ConnectIds : createStreamingManagerOk(a)
    \/ \E a \in ConnectIds : createStreamingManagerFail(a)
    \/ \E a \in ConnectIds, state \in ConnectionState : onConnectionStateChange(a, state)
    \/ \E a \in ConnectIds : newChatOk(a)
    \/ \E a \in ConnectIds : newChatFail(a)
    \/ disconnect
    \/ \E t \in Texts, f \in AppendFlags : chat(t, f)
    \/ \E i \in 1 .. MaxOps, r \in ChatResponses : chatOk(i, r)
    \/ \E i \in 1 .. MaxOps : chatFail(i)
    \/ \E s \in ConnectIds, p \in ChatProgress, d \in EventData : onProgress(s, p, d)

Spec == Init /\ [][Next]_vars

\* speak() and rate() change nothing but ret, which no action reads: the
\* session behaves the same whether or not the host calls them.  Each is
\* added to the session's steps in a specification of its own.
NextSpeak ==
    \/ Next
    \/ \E p \in SpeakPayloads : speak(p)

SpecSpeak == Init /\ [][NextSpeak]_vars

NextRate ==
    \/ Next
    \/ \E m \in RateTargets, score \in Scores, r \in RateIds : rate(m, score, r)

SpecRate == Init /\ [][NextRate]_vars

\* The session from the state its first connect() leaves it in when nothing
\* else has happened: the socket and the stream of the call are open, its chat,
\* its handles and a fresh greeting are installed.  The operations counted
\* are the ones that follow: the connect() that made the session is taken off.
InitConnected ==
    /\ agentInstance \in Agents
    /\ \E c \in GreetingContents(agentInstance) :
          items = [chat |-> ChatId(1, 1), streamingManager |-> 1,
                   socketManager |-> 1, messages |-> getInitialMessages(c, 1)]
    /\ notified = items.messages
    /\ mode = "functional"
    /\ resets = 1
    /\ conn = [a \in ConnectIds |->
                 IF a = 1 THEN SettleWith(1, "resolved", 1)
                 ELSE [pc |-> "idle", pending |-> 0, created |-> 0]]
    /\ sockets = [a \in ConnectIds |-> IF a = 1 THEN "open" ELSE "none"]
    /\ streams = [a \in ConnectIds |-> IF a = 1 THEN "open" ELSE "none"]
    /\ chatCalls = <<>>
    /\ used = 0 - 1
    /\ answeredId = Undefined
    /\ reported = <<>>
    /\ forwarded = <<>>
    /\ ret = Ret("connect", "pending")

SpecConnected == InitConnected /\ [][Next]_vars

\* connect() and disconnect() with the handler followed run by run
NextForward ==
    \/ \E a \in ConnectIds : connect(a)
    \/ \E a \in ConnectIds : createSocketManagerOk(a)
    \/ \E a \in ConnectIds : createSocketManagerFail(a)
    \/ \E a \in ConnectIds : createStreamingManagerOk(a)
    \/ \E a \in ConnectIds : createStreamingManagerFail(a)
    \/ \E a \in ConnectIds, state \in ConnectionState : streamReports(a, state)
    \/ \E a \in ConnectIds : newChatReturns(a)
    \/ \E a \in ConnectIds : newChatThrows(a)
    \/ disconnect

SpecForward == Init /\ [][NextForward]_vars

\* the session with changeMode()
NextMode ==
    \/ Next
    \/ \E m \in ChatMode : changeMode(m)

SpecMode == Init /\ [][NextMode]_vars

(* ------------------------------- claims -------------------------------- *)

\* the errors of section 7, as the messages the code throws
IsValidationError(out) == out = "Message cannot be empty"
IsNotInitializedError(out) ==
    out \in {"Chat is not initialized", "Streaming manager is not initialized"}
IsNotFoundError(out) == out = "Message not found"

\* the transcript
Transcript == items.messages

\* the last message of a non-empty sequence of messages
Last(ms) == ms[Len(ms)]

\* a sequence without its last element
Front(ms) == SubSeq(ms, 1, Len(ms) - 1)

\* C1: chat(text) with an empty text or a text of 800 characters or more fails
\* with a validation error, issues no REST chat call and leaves the transcript
\* unchanged, whatever the session state.
C1_InvalidTextRejected ==
    [][\A t \in Texts, f \in AppendFlags :
          (chat(t, f) /\ (Len(t) = 0 \/ Len(t) >= 800))
              => /\ IsValidationError(ret'.out)
                 /\ chatCalls' = chatCalls
                 /\ items' = items]_vars

NoMediaSession ==
    \/ items.streamingManager = NoHandle
    \/ streams[items.streamingManager] = "closed"

\* C4: chat() with a valid text, called when no Chat or no Media Session exists
\* (before the first successful connect(), after a failed one, after
\* disconnect()), fails with a not-initialized error, appends nothing and issues
\* no REST chat call.
C4_ChatNeedsSession ==
    [][\A t \in Texts, f \in AppendFlags :
          (/\ chat(t, f)
           /\ Len(t) >= 1 /\ Len(t) < 800
           /\ (items.chat = Undefined \/ NoMediaSession))
              => /\ IsNotInitializedError(ret'.out)
                 /\ chatCalls' = chatCalls
                 /\ items' = items]_vars

\* connect() call a resolves in this step
Resolves(a) == conn[a].pc = "wait" /\ conn'[a].pc = "resolved"

\* connect() call a rejects in this step
Rejects(a) ==
    /\ conn[a].pc \in {"socket", "wait"}
    /\ conn'[a].pc \in {"Cannot open socket", "Cannot create new chat", "Cannot create connection"}

\* C5: in the state a connect() resolves into, whatever the transcript held
\* before, the transcript is one assistant message whose content is one of
\* agent.greetings, or the templated default when there are none, and the chat,
\* the socket manager and the streaming manager are all present.
C5_ConnectSeedsGreeting ==
    [][\A a \in ConnectIds :
          Resolves(a)
             => /\ Len(items'.messages) = 1
                /\ items'.messages[1].role = "assistant"
                /\ items'.messages[1].content \in
                      (IF Len(agentInstance.greetings) > 0
                       THEN {agentInstance.greetings[i] : i \in 1 .. Len(agentInstance.greetings)}
                       ELSE {"Hi! I'm " \o agentInstance.preview_name
                                \o ", welcome to agents. How can I help you?"})
                /\ items'.chat # Undefined
                /\ items'.socketManager # NoHandle
                /\ items'.streamingManager # NoHandle]_vars

\* C5 witness: a second connect() has resolved while the REST call of a chat()
\* made in the first session, whose user message was in the transcript, is
\* still in flight; the transcript is the greeting alone
C5_Witness ==
    /\ conn[2].pc = "resolved"
    /\ items.chat = ChatId(2, 1)
    /\ Len(chatCalls) = 1
    /\ chatCalls[1].chatId = ChatId(1, 1)
    /\ Len(chatCalls[1].messages) = 2
    /\ Len(Transcript) = 1

\* the chat and the two handles are all present or all absent
AllOrNone ==
    \/ items.chat = Undefined /\ items.socketManager = NoHandle /\ items.streamingManager = NoHandle
    \/ items.chat # Undefined /\ items.socketManager # NoHandle /\ items.streamingManager # NoHandle

\* C6: connect() resolves only once its socket has opened, its stream has
\* reported "connected" and a chat has been obtained, and it installs that chat;
\* a newChat that throws or a "fail" report before that rejects connect(); a
\* rejection leaves items as it was; in every reachable state the chat, the
\* socket manager and the streaming manager are all present or all absent.
C6_ConnectAllOrNothing ==
    /\ []AllOrNone
    /\ [][\A a \in ConnectIds :
            /\ Resolves(a)
                 => /\ sockets[a] = "open"
                    /\ streams[a] # "none"
                    /\ conn[a].pending > 0
                    /\ conn'[a].created > 0
                    /\ items'.chat = ChatId(a, conn'[a].created)
                    /\ items'.socketManager = a /\ items'.streamingManager = a
            /\ (newChatFail(a) /\ conn[a].pc = "wait")
                 => conn'[a].pc = "Cannot create new chat"
            /\ (onConnectionStateChange(a, "fail") /\ conn[a].pc = "wait")
                 => conn'[a].pc = "Cannot create connection"
            /\ Rejects(a) => items' = items
       ]_vars

\* C6 witness: the socket and the stream of the first connect() are open, its
\* newChat has thrown, connect() has rejected and the session holds nothing
C6_Witness ==
    /\ conn[1].pc = "Cannot create new chat"
    /\ sockets[1] = "open" /\ streams[1] = "open"
    /\ items.chat = Undefined
    /\ items.socketManager = NoHandle /\ items.streamingManager = NoHandle

\* C7: after disconnect() the socket manager and the streaming manager are
\* absent and the transcript is the single greeting; disconnect() invokes
\* disconnect on no handle that a disconnect() has already disconnected, and
\* with nothing to disconnect it changes no state.
C7_DisconnectIdempotent ==
    [][disconnect
         => /\ items'.socketManager = NoHandle
            /\ items'.streamingManager = NoHandle
            /\ Len(items'.messages) = 1
            /\ items'.messages[1].role = "assistant"
            /\ DisconnectTargets.socket # NoHandle
                 => sockets[DisconnectTargets.socket] = "open"
            /\ DisconnectTargets.stream # NoHandle
                 => streams[DisconnectTargets.stream] = "open"
            /\ ret.op = "disconnect"
                 => items' = items /\ sockets' = sockets /\ streams' = streams
      ]_vars

\* a Media Session is open: a streaming manager is installed and disconnect()
\* has not been called on it
MediaSessionOpen ==
    /\ items.streamingManager # NoHandle
    /\ streams[items.streamingManager] = "open"

\* C8: speak(payload) throws the not-initialized error whenever no Media
\* Session is open, before the first successful connect() and after
\* disconnect() alike; the script goes to the streaming manager only when a
\* Media Session is open.
C8_SpeakNeedsMediaSession ==
    [][\A p \in SpeakPayloads :
          speak(p)
            => /\ ~MediaSessionOpen => IsNotInitializedError(ret'.out)
               /\ ret'.out = "streamingManager.speak" => MediaSessionOpen]_vars

\* C9: once an answer event has been applied to the trailing assistant
\* message, a partial event leaves the content of that message as it is.
C9_AnswerClosesMessage ==
    [][\A s \in ConnectIds, d \in EventData :
          (/\ onProgress(s, "partial", d)
           /\ Last(Transcript).role = "assistant"
           /\ Last(Transcript).id = answeredId)
             => Last(items'.messages).content = Last(Transcript).content]_vars

\* messageId is the id of no message of the transcript
UnknownMessage(messageId) ==
    \A i \in 1 .. Len(Transcript) : Transcript[i].id # messageId

\* rate() has issued a ratingsAPI request
IsRatingRequest(out) == out \in {"ratingsAPI.update", "ratingsAPI.create"}

\* C10 (as written): rate(messageId, score) throws the not-found error when
\* messageId matches no message, also when there is no chat, and the
\* not-initialized error when there is no chat and the message is known; it
\* issues no rating request in either case.
C10_RateNotFoundFirst ==
    [][\A m \in RateTargets, score \in Scores, r \in RateIds :
          rate(m, score, r)
            => /\ UnknownMessage(m) => IsNotFoundError(ret'.out)
               /\ (items.chat = Undefined /\ ~UnknownMessage(m))
                     => IsNotInitializedError(ret'.out)
               /\ (UnknownMessage(m) \/ items.chat = Undefined)
                     => ~IsRatingRequest(ret'.out)]_vars

\* C10 (amended): rate(messageId, score) throws the not-initialized error when
\* there is no chat, also when messageId matches no message, and the not-found
\* error when there is a chat and messageId matches no message; it issues no
\* rating request in either case, and issues one otherwise.  (A rate() call
\* that ends as the call before it ended changes no variable; the steps that
\* change ret are the ones to look at.)
C10_RateNotInitializedFirst ==
    [][\A m \in RateTargets, score \in Scores, r \in RateIds :
          (ret' # ret /\ rate(m, score, r))
            => /\ items.chat = Undefined => IsNotInitializedError(ret'.out)
               /\ (items.chat # Undefined /\ UnknownMessage(m))
                     => IsNotFoundError(ret'.out)
               /\ (UnknownMessage(m) \/ items.chat = Undefined)
                     => ~IsRatingRequest(ret'.out)
               /\ (~UnknownMessage(m) /\ items.chat # Undefined)
                     => IsRatingRequest(ret'.out)]_vars

\* C10 witness: rate() was called with an id of no message while there was no
\* chat, and threw the not-initialized error
C10_Witness ==
    /\ ret = RetOf("rate", "id?", "Chat is not initialized")
    /\ items.chat = Undefined
    /\ UnknownMessage("id?")

\* connection attempt a calls agentsApi.newChat in this step
CallsNewChat(a) == conn'[a].pending > conn[a].pending

\* C11: once the session has a Chat, no later connection attempt calls newChat,
\* and the Chat the session holds, which chat() sends its requests to, stays
\* the one that was created first.
C11_ChatCreatedOnce ==
    [][/\ \A a \in ConnectIds : CallsNewChat(a) => items.chat = Undefined
       /\ items.chat # Undefined => items'.chat = items.chat]_vars

\* socket s is not the one the session holds: a later connect() has superseded
\* it, or the connect() that opened it has rejected
StaleSocket(s) ==
    /\ s # items.socketManager
    /\ conn[s].pc \in {"resolved", "Cannot create new chat", "Cannot create connection"}

\* C12: a progress event that arrives through a socket other than the one the
\* session holds (a socket an earlier connect() installed and a later one
\* superseded, or one opened by a connect() that then failed) changes no
\* message of the transcript and calls onNewMessage with nothing new.
C12_StaleSocketIgnored ==
    [][\A s \in ConnectIds, p \in ChatProgress, d \in EventData :
          (onProgress(s, p, d) /\ StaleSocket(s))
             => /\ items'.messages = Transcript
                /\ notified' = notified]_vars

\* C13: every step that changes the transcript calls onNewMessage with the
\* transcript as the step leaves it; so does the step of chat() that appends
\* the user message, before agentsApi.chat resolves or rejects.
C13_EveryMutationNotified ==
    [][items'.messages # Transcript => notified' = items'.messages]_vars

\* the error of a chat() that the mode forbids
IsModeError(out) == out = "ModeError"

\* C14: chat() with a valid text, called while the mode is Maintenance and a
\* Chat and a Media Session exist, fails with the mode error, appends no user
\* message and issues no REST chat call.
C14_MaintenanceRejectsChat ==
    [][\A t \in Texts, f \in AppendFlags :
          (/\ chat(t, f)
           /\ Len(t) >= 1 /\ Len(t) < 800
           /\ mode = "maintenance"
           /\ items.chat # Undefined /\ items.streamingManager # NoHandle)
              => /\ IsModeError(ret'.out)
                 /\ chatCalls' = chatCalls
                 /\ items' = items]_vars

\* C15: no reachable state has a mode other than Functional together with a
\* socket manager or a streaming manager in the session: changeMode to such a
\* mode has disconnected, and the handles are absent, when the mode changes.
C15_NonFunctionalHasNoHandles ==
    mode # "functional"
        => items.socketManager = NoHandle /\ items.streamingManager = NoHandle

\* a chat() is in flight: its user message is appended, its REST response is
\* pending
ChatInFlight == chatCalls # <<>>

\* C16: a progress event changes neither the number nor the order, roles or
\* ids of the messages of the transcript; it changes the content of the last
\* message at most, and only when that message is an assistant message; while a
\* chat() is in flight it changes no content.
C16_ProgressFrame ==
    [][\A s \in ConnectIds, p \in ChatProgress, d \in EventData :
          onProgress(s, p, d)
            => /\ Len(items'.messages) = Len(Transcript)
               /\ \A i \in 1 .. Len(Transcript) :
                    /\ items'.messages[i].id = Transcript[i].id
                    /\ items'.messages[i].role = Transcript[i].role
                    /\ items'.messages[i].matches = Transcript[i].matches
                    /\ i < Len(Transcript)
                         => items'.messages[i].content = Transcript[i].content
               /\ Last(Transcript).role # "assistant" => items'.messages = Transcript
               /\ ChatInFlight => items'.messages = Transcript]_vars

\* C17: when a progress event with content is applied to a trailing assistant
\* message that no answer event has closed, a partial event sets the content to
\* the previous content followed by the content of the event, and an answer or
\* complete event sets it to the content of the event.
C17_PartialAppendsAnswerReplaces ==
    [][\A s \in ConnectIds, p \in ChatProgress, d \in EventData :
          (/\ onProgress(s, p, d)
           /\ d # Undefined
           /\ Last(Transcript).role = "assistant"
           /\ Last(Transcript).id # answeredId)
             => Last(items'.messages).content
                  = (IF p = "partial" THEN Last(Transcript).content \o d ELSE d)]_vars

\* C17 witness: a partial event "A" has been applied to the assistant message
\* "world" that chat() pushed
C17_Witness ==
    /\ Len(Transcript) = 3
    /\ Transcript[3].role = "assistant"
    /\ Transcript[3].content = "worldA"
    /\ answeredId = Undefined

\* the streaming manager of connect() call a has been superseded: a later
\* connect() has resolved
Superseded(a) == \E b \in ConnectIds : b > a /\ conn[b].pc = "resolved"

\* C18: the REST call a chat() issues carries the whole transcript, with the
\* user message just appended as its last element, the chat id the session
\* holds, and the session id and stream id of the streaming manager the session
\* holds at the call, never those of a superseded one.
C18_ChatRequestPayload ==
    [][\A t \in Texts, f \in AppendFlags :
          (chat(t, f) /\ Len(chatCalls') = Len(chatCalls) + 1)
            => LET request == Last(chatCalls') IN
               /\ Front(request.messages) = Transcript
               /\ Last(request.messages).role = "user"
               /\ Last(request.messages).content = t
               /\ request.messages = items'.messages
               /\ request.chatId = items.chat
               /\ request.sessionId = items.streamingManager
               /\ request.streamId = items.streamingManager
               /\ conn[request.sessionId].pc = "resolved"
               /\ ~Superseded(request.sessionId)
               /\ request.append_chat = f]_vars

\* C18 witness: a chat() made after a second connect() has resolved is in
\* flight with the ids of the second streaming manager
C18_Witness ==
    /\ conn[1].pc = "resolved" /\ conn[2].pc = "resolved"
    /\ Len(chatCalls) = 1
    /\ chatCalls[1].sessionId = 2 /\ chatCalls[1].streamId = 2
    /\ chatCalls[1].chatId = ChatId(2, 1)
    /\ Len(chatCalls[1].messages) = 2

\* C19: within one connection attempt agentsApi.newChat is called at most
\* once, and only while the attempt has no chat: a "connected" report that
\* arrives while a newChat call of the attempt is in flight, or after one has
\* returned, calls it no second time.
C19_NewChatAtMostOnce ==
    [][\A a \in ConnectIds :
          CallsNewChat(a) => conn[a].pending = 0 /\ LocalChat(a) = Undefined]_vars

\* connect() call a has rejected
Rejected(a) ==
    conn[a].pc \in {"Cannot open socket", "Cannot create new chat", "Cannot create connection"}

\* C20: a connect() call is left pending by no failure of a collaborator: the
\* step on which createSocketManager, createStreamingManager or newChat fails,
\* or on which the stream reports "fail", while connect() is pending rejects
\* it; the step on which newChat returns a chat resolves it.
C20_ConnectSettles ==
    [][\A a \in ConnectIds :
          /\ (\/ createSocketManagerFail(a)
              \/ createStreamingManagerFail(a)
              \/ newChatFail(a)
              \/ (onConnectionStateChange(a, "fail") /\ conn[a].pc = "wait"))
                => Rejected(a)'
          /\ newChatOk(a) => conn'[a].pc = "resolved"]_vars

\* sequence p is a prefix of sequence q
IsPrefix(p, q) == Len(p) <= Len(q) /\ SubSeq(q, 1, Len(p)) = p

\* C21: the host's onConnectionStateChange receives the connection states the
\* streams report once each and in the order of the reports: what it has
\* received is at every moment the beginning of what has been reported, also
\* when a state is reported while the newChat call of a "connected" is in
\* flight.
C21_StatesForwardedInOrder == IsPrefix(forwarded, reported)

\* the number of messages of role r among those of ms from position i on
CountRole(ms, r, i) == Cardinality({j \in i .. Len(ms) : ms[j].role = r})

\* C22: in every reachable state the transcript is not empty, its first
\* message is the assistant greeting that construction or the last connect()
\* put there, and the assistant messages after the greeting are no more than
\* the user messages: no assistant message is appended to a transcript that
\* lacks the user message it answers.
C22_TranscriptShape ==
    /\ Len(Transcript) >= 1
    /\ Transcript[1].role = "assistant"
    /\ Transcript[1].id = MessageId(resets, 1)
    /\ CountRole(Transcript, "assistant", 2) <= CountRole(Transcript, "user", 2)

====
